---------------------------- MODULE Spec2Model ----------------------------
(***************************************************************************)
(* Monthly shift roster service (src/app.py): the relaxation controller    *)
(* ShiftScheduler.create_schedule_with_relaxation, the constraint problem  *)
(* built by ShiftScheduler.create_schedule, the result projection, the     *)
(* failure diagnoser ShiftScheduler._analyze_failure and the response of   *)
(* the /generate handler.                                                  *)
(*                                                                         *)
(* The constraint solver (ortools CP-SAT) is outside the repository.  It   *)
(* is modelled by its contract: an invocation answers OPTIMAL or FEASIBLE  *)
(* together with an assignment that satisfies every constraint the         *)
(* builder added, INFEASIBLE when no assignment satisfies them, or UNKNOWN *)
(* when the 30 s budget runs out first.  The assignments the model lets    *)
(* the solver return are the rosters of Candidates(r): reference rosters   *)
(* of the request's size and their one-edit neighbours.  The requests of   *)
(* Requests are chosen so that this set decides every ladder profile       *)
(* exactly: where no candidate satisfies a profile, no assignment at all   *)
(* does (see the notes at Requests).                                       *)
(***************************************************************************)
EXTENDS Integers, Sequences, FiniteSets, TLC

VARIABLES
  req,              \* the parsed request held by the ShiftScheduler object
  pc,               \* "ladder": in the controller's loop; "done": responded
  calls,            \* the profiles passed to create_schedule so far, in order
  status,           \* the solver status of the latest create_schedule call
  schedule,         \* the controller's returned schedule (labels per staff)
  success,          \* the controller's returned success flag
  reasons,          \* the controller's returned diagnostic findings
  relaxation_info,  \* the controller's returned descriptor (<<>> is None)
  response          \* what /generate answers: "none" until it responds

vars == <<req, pc, calls, status, schedule, success, reasons,
          relaxation_info, response>>

(***************************************************************************)
(* Shift types (ShiftScheduler.__init__) and their display labels.  The    *)
(* three working labels of the source are written Early, Middle, Late.     *)
(***************************************************************************)
EARLY == 0
MIDDLE == 1
LATE == 2
OFF == 3

shifts == <<"Early", "Middle", "Late", "OFF">>

WorkingLabels == <<"Early", "Middle", "Late">>

\* ['早番', '中番', '遅番'].index(shift_type)
LabelIndex(shift_type) ==
  CHOOSE i \in 0..2 : WorkingLabels[i + 1] = shift_type

(***************************************************************************)
(* Calendar: num_days is the day number of (first day of next month - 1).  *)
(***************************************************************************)
IsLeap(year) == (year % 4 = 0 /\ year % 100 # 0) \/ year % 400 = 0

DaysIn(month, year) ==
  CASE month = 2 -> IF IsLeap(year) THEN 29 ELSE 28
    [] month \in {4, 6, 9, 11} -> 30
    [] OTHER -> 31

\* datetime(year + 1, 1, 1) for December, datetime(year, month + 1, 1) otherwise
next_month(month, year) ==
  IF month = 12 THEN <<1, year + 1>> ELSE <<month + 1, year>>

\* (datetime(y, m, 1) - timedelta(days=1)).day
last_day(m, y) == IF m = 1 THEN DaysIn(12, y - 1) ELSE DaysIn(m - 1, y)

num_days(r) ==
  LET nm == next_month(r.month, r.year) IN last_day(nm[1], nm[2])

EvenMonthOff == 8
OddMonthOff == 9

\* variant: the target follows the parity of the month's length
target_off_days_ByLength(r) ==
  IF num_days(r) % 2 = 0 THEN EvenMonthOff ELSE OddMonthOff

target_off_days(r) == IF r.month % 2 = 0 THEN EvenMonthOff ELSE OddMonthOff

Staff(r) == 0..(r.num_staff - 1)
Days(r) == 0..(num_days(r) - 1)

(***************************************************************************)
(* The relaxation ladder, literally as in create_schedule_with_relaxation. *)
(***************************************************************************)
Profile(b, p, c, l) ==
  [relax_balance |-> b, relax_preferences |-> p,
   relax_consecutive |-> c, relax_late_early |-> l]

\* variant: the twelfth entry widens the balance instead of repeating the
\* ninth
relaxation_attempts_TwelfthDistinct ==
  << Profile(0, FALSE, FALSE, FALSE), Profile(1, FALSE, FALSE, FALSE),
     Profile(2, FALSE, FALSE, FALSE), Profile(0, TRUE, FALSE, FALSE),
     Profile(1, TRUE, FALSE, FALSE), Profile(2, TRUE, FALSE, FALSE),
     Profile(0, FALSE, TRUE, FALSE), Profile(1, FALSE, TRUE, FALSE),
     Profile(2, TRUE, TRUE, FALSE), Profile(0, FALSE, FALSE, TRUE),
     Profile(1, TRUE, FALSE, TRUE), Profile(3, TRUE, FALSE, FALSE),
     Profile(3, TRUE, TRUE, FALSE), Profile(2, TRUE, TRUE, TRUE),
     Profile(3, TRUE, TRUE, TRUE), Profile(4, TRUE, TRUE, TRUE) >>

\* variant: the ladder without its repeated twelfth entry
relaxation_attempts_Deduplicated ==
  << Profile(0, FALSE, FALSE, FALSE), Profile(1, FALSE, FALSE, FALSE),
     Profile(2, FALSE, FALSE, FALSE), Profile(0, TRUE, FALSE, FALSE),
     Profile(1, TRUE, FALSE, FALSE), Profile(2, TRUE, FALSE, FALSE),
     Profile(0, FALSE, TRUE, FALSE), Profile(1, FALSE, TRUE, FALSE),
     Profile(2, TRUE, TRUE, FALSE), Profile(0, FALSE, FALSE, TRUE),
     Profile(1, TRUE, FALSE, TRUE), Profile(3, TRUE, TRUE, FALSE),
     Profile(2, TRUE, TRUE, TRUE), Profile(3, TRUE, TRUE, TRUE),
     Profile(4, TRUE, TRUE, TRUE) >>

relaxation_attempts ==
  << Profile(0, FALSE, FALSE, FALSE),
     Profile(1, FALSE, FALSE, FALSE),
     Profile(2, FALSE, FALSE, FALSE),
     Profile(0, TRUE, FALSE, FALSE),
     Profile(1, TRUE, FALSE, FALSE),
     Profile(2, TRUE, FALSE, FALSE),
     Profile(0, FALSE, TRUE, FALSE),
     Profile(1, FALSE, TRUE, FALSE),
     Profile(2, TRUE, TRUE, FALSE),
     Profile(0, FALSE, FALSE, TRUE),
     Profile(1, TRUE, FALSE, TRUE),
     Profile(2, TRUE, TRUE, FALSE),
     Profile(3, TRUE, TRUE, FALSE),
     Profile(2, TRUE, TRUE, TRUE),
     Profile(3, TRUE, TRUE, TRUE),
     Profile(4, TRUE, TRUE, TRUE) >>

(***************************************************************************)
(* create_schedule: the constraint problem.  An assignment a gives each    *)
(* staff s and day index d (0-based, as in the source) one shift type, so  *)
(* constraint 1 (exactly one of the four booleans per cell) is the shape   *)
(* of a.  r is the request, p the relaxation profile of the attempt.       *)
(***************************************************************************)
CountOnDay(a, r, d, shift) == Cardinality({s \in Staff(r) : a[s][d] = shift})

CountOfStaff(a, r, s, shift) == Cardinality({d \in Days(r) : a[s][d] = shift})

\* model.Add(sum(EARLY) == early_count); model.Add(sum(MIDDLE) == middle_count)
EarlyMiddleCount(a, r, d) ==
  /\ CountOnDay(a, r, d, EARLY) = r.early_count
  /\ CountOnDay(a, r, d, MIDDLE) = r.middle_count

\* variant: no upper limit on the Late headcount
LateCount_NoUpper(late_count, r) == late_count >= r.late_count_min

\* model.Add(late_count >= late_count_min);
\* if late_count_max > 0: model.Add(late_count <= late_count_max)
LateCount(late_count, r) ==
  /\ late_count >= r.late_count_min
  /\ (r.late_count_max > 0 => late_count <= r.late_count_max)

\* constraint 2
Headcount(a, r) ==
  \A d \in Days(r) :
    /\ EarlyMiddleCount(a, r, d)
    /\ LateCount(CountOnDay(a, r, d, LATE), r)

\* constraint 3
NakabanOnly(a, r) ==
  \A s \in Staff(r) :
    r.staff_info[s].nakaban_only =>
      \A d \in Days(r) : a[s][d] # EARLY /\ a[s][d] # LATE

MaxConsecutive == 3
MaxConsecutiveRelaxed == 4

\* variant: the relaxed limit under every profile
max_consecutive_Relaxed(p) == MaxConsecutiveRelaxed

max_consecutive(p) ==
  IF p.relax_consecutive THEN MaxConsecutiveRelaxed ELSE MaxConsecutive

\* for d in range(num_days - max_consecutive)
WindowStarts(r, p) == 0..(num_days(r) - max_consecutive(p) - 1)

\* constraint 4
Consecutive(a, r, p) ==
  \A s \in Staff(r) : \A d \in WindowStarts(r, p) :
    \E i \in 0..max_consecutive(p) : a[s][d + i] = OFF

\* constraint 5
LateThenEarly(a, r, p) ==
  ~p.relax_late_early =>
    \A s \in Staff(r) : \A d \in 0..(num_days(r) - 2) :
      ~(a[s][d] = LATE /\ a[s][d + 1] = EARLY)

\* constraint 6
Newbies(a, r) ==
  LET newbies == {s \in Staff(r) : r.staff_info[s].is_newbie} IN
  Cardinality(newbies) >= 2 =>
    \A d \in Days(r) : \A shift \in {EARLY, MIDDLE, LATE} :
      Cardinality({s \in newbies : a[s][d] = shift}) <= 1

\* variant: no range guard on the day of an entry
DayInRange_Unguarded(day, r) == TRUE

\* if 1 <= day <= self.num_days
DayInRange(day, r) == 1 <= day /\ day <= num_days(r)

\* the keys of the dict shifts: (s, d, shift) for s in range(num_staff),
\* d in range(num_days)
HasCell(r, s, d) == s \in Staff(r) /\ d \in Days(r)

\* the (staff, day) entries whose variable create_schedule looks up once
\* the day passed the range guard: requests_off, holidays, and the
\* preferred shifts with a working label (as hard constraints when
\* preferences are hard, and always as objective terms)
GuardedEntries(r, p) ==
  UNION {
    {<<s, r.requests_off[s][i]>> : i \in 1..Len(r.requests_off[s])}
      \cup {<<s, r.holidays[s][i]>> : i \in 1..Len(r.holidays[s])}
      \cup {<<s, e.day>> :
              e \in {x \in r.preferred_shifts[s] :
                       x.shift_type \in {"Early", "Middle", "Late"}}}
    : s \in Staff(r)}

\* shifts[(s, day - 1, ...)] of an entry that passed the guard is a dict
\* lookup: a key that is missing raises KeyError out of create_schedule
BuildRaises(r, p) ==
  \E e \in GuardedEntries(r, p) :
    DayInRange(e[2], r) /\ ~HasCell(r, e[1], e[2] - 1)

\* constraint 7, requested days off
RequestsOff(a, r) ==
  \A s \in Staff(r) : \A i \in 1..Len(r.requests_off[s]) :
    LET day == r.requests_off[s][i] IN
    (DayInRange(day, r) /\ HasCell(r, s, day - 1)) => a[s][day - 1] = OFF

\* constraint 7, paid holidays
Holidays(a, r) ==
  \A s \in Staff(r) : \A i \in 1..Len(r.holidays[s]) :
    LET day == r.holidays[s][i] IN
    (DayInRange(day, r) /\ HasCell(r, s, day - 1)) => a[s][day - 1] = OFF

\* variant: preferred shifts are never hard constraints
PreferredShifts_Soft(a, r, p) == TRUE

\* constraint 7, preferred shifts as hard constraints
PreferredShifts(a, r, p) ==
  ~p.relax_preferences =>
    \A s \in Staff(r) : \A e \in r.preferred_shifts[s] :
      (DayInRange(e.day, r) /\ HasCell(r, s, e.day - 1)
         /\ e.shift_type \in {"Early", "Middle", "Late"})
        => a[s][e.day - 1] = LabelIndex(e.shift_type)

\* constraint 8
OffDays(a, r) ==
  \A s \in Staff(r) : CountOfStaff(a, r, s, OFF) = target_off_days(r)

adjusted_balance_tolerance(r, p) == r.balance_tolerance + p.relax_balance

\* variant: only the excess of Early over Late shifts is limited
Balance_OneSided(a, r, p) ==
  \A s \in Staff(r) :
    ~r.staff_info[s].nakaban_only =>
      CountOfStaff(a, r, s, EARLY) - CountOfStaff(a, r, s, LATE)
        <= r.balance_tolerance + p.relax_balance

\* constraint 9
Balance(a, r, p) ==
  \A s \in Staff(r) :
    ~r.staff_info[s].nakaban_only =>
      LET early_count == CountOfStaff(a, r, s, EARLY)
          late_count == CountOfStaff(a, r, s, LATE)
      IN /\ early_count - late_count <= adjusted_balance_tolerance(r, p)
         /\ late_count - early_count <= adjusted_balance_tolerance(r, p)

\* the constraints that are the same for every profile
FixedConstraints(a, r) ==
  /\ OffDays(a, r)
  /\ RequestsOff(a, r)
  /\ Holidays(a, r)
  /\ Headcount(a, r)
  /\ NakabanOnly(a, r)
  /\ Newbies(a, r)

\* the constraints that depend on the profile p
ProfileConstraints(a, r, p) ==
  /\ Consecutive(a, r, p)
  /\ LateThenEarly(a, r, p)
  /\ PreferredShifts(a, r, p)
  /\ Balance(a, r, p)

\* every constraint create_schedule adds for profile p
Satisfies(a, r, p) == FixedConstraints(a, r) /\ ProfileConstraints(a, r, p)

(***************************************************************************)
(* The solver's answers.  Reference rosters, one row per staff and one     *)
(* column per day, entries EARLY, MIDDLE, LATE, OFF.                        *)
(***************************************************************************)
Roster_Feb2023 ==
  <<<<2,2,2,3,0,2,2,3,0,0,3,2,2,2,3,0,0,2,3,0,0,0,3,2,3,0,3,0>>,
    <<2,3,0,0,3,0,2,2,3,2,2,3,0,3,0,2,2,3,2,2,2,3,0,0,0,3,0,2>>,
    <<0,0,3,2,2,3,0,0,2,3,0,0,3,0,2,2,3,0,0,2,3,2,2,3,2,2,2,3>>>>

Roster_Feb2024 ==
  <<<<0,0,2,3,0,3,2,2,2,3,0,2,2,3,0,3,0,2,2,3,0,2,2,3,0,0,2,3,2>>,
    <<2,2,3,0,2,2,3,0,0,0,3,0,3,2,2,2,3,0,2,2,3,0,0,0,3,2,3,0,0>>,
    <<2,3,0,2,3,0,0,2,3,2,2,3,0,0,3,0,2,3,0,0,2,3,2,2,2,3,0,2,2>>>>

Roster_Apr2024 ==
  <<<<2,3,0,2,3,0,0,0,3,2,2,2,3,0,2,2,3,0,0,0,3,0,0,2,3,2,2,2,3,2>>,
    <<2,2,3,0,2,2,3,3,0,0,2,3,0,2,2,3,2,2,2,3,0,2,2,3,0,0,0,3,0,0>>,
    <<0,0,2,3,0,3,2,2,2,3,0,0,2,3,0,0,0,3,2,2,2,3,3,0,2,2,3,0,2,2>>>>

Roster_Dec2024 ==
  <<<<0,0,0,3,0,2,2,3,0,2,2,3,0,2,3,0,0,0,3,2,2,2,3,0,2,3,2,2,2,3,2>>,
    <<2,3,2,2,2,3,0,0,2,3,0,0,2,3,0,2,2,3,0,0,2,3,0,2,3,0,0,0,3,2,2>>,
    <<2,2,3,0,3,0,2,2,3,0,2,2,3,0,2,2,3,2,2,3,0,0,2,3,0,2,2,3,0,0,0>>>>

Roster_Jan2025 ==
  <<<<3,0,2,3,0,0,0,3,0,2,2,3,2,2,2,3,2,3,0,2,3,0,0,3,0,0,2,3,0,2,2>>,
    <<2,3,0,0,3,2,2,2,3,0,2,2,3,0,0,2,3,0,2,3,2,3,2,2,2,3,0,0,3,0,0>>,
    <<0,2,3,2,2,2,3,0,2,3,0,0,0,3,3,0,0,2,3,0,0,2,3,0,2,2,3,2,2,2,3>>>>

Roster_Sep2024 ==
  <<<<2,3,0,2,3,0,2,3,2,2,2,3,0,0,2,3,3,2,2,2,3,0,0,0,3,0,0,3,0,2>>,
    <<0,0,3,0,2,3,0,2,3,3,0,0,3,2,3,0,0,0,3,2,2,2,3,2,2,2,3,0,2,2>>,
    <<2,2,2,3,0,2,3,0,0,0,3,2,2,3,0,2,2,3,0,0,0,3,2,3,0,3,2,2,3,0>>>>

Roster_ScenarioA ==
  <<<<0,0,0,3,2,2,3,2,3,0,2,2,3,1,2,2,3,0,1,0,3,2,2,1,3,2,2,1,3,0>>,
    <<1,2,3,2,1,1,3,1,2,2,3,0,0,3,2,1,1,3,2,2,1,3,1,0,2,3,0,0,2,3>>,
    <<3,1,2,2,3,0,0,3,0,1,0,3,1,2,3,0,0,2,3,2,2,2,3,2,1,0,3,2,2,2>>,
    <<2,2,3,0,0,3,1,0,1,3,1,2,2,3,1,2,3,1,0,1,3,1,2,2,3,2,1,3,1,1>>,
    <<2,3,1,1,3,2,2,2,3,2,2,1,3,0,0,3,2,2,2,3,0,0,0,3,0,1,2,3,0,2>>>>

Roster_Newbies ==
  <<<<2,2,3,2,3,0,0,0,3,2,3,0,3,0,2,2,3,0,0,2,3,0,2,2,3,0,2,2>>,
    <<0,0,2,3,2,2,3,2,2,3,2,2,2,3,0,0,0,3,2,3,0,2,3,0,0,2,3,0>>,
    <<2,3,0,0,0,3,2,3,0,0,0,3,0,2,3,2,2,2,3,0,2,3,0,2,2,3,0,2>>>>

Roster_Nakaban ==
  <<<<3,0,0,0,3,2,2,2,3,0,2,2,3,1,2,2,3,0,0,2,3,0,0,3,0,0,0,3,2,2>>,
    <<2,1,3,2,3,0,0,0,3,1,0,2,3,0,0,2,3,2,2,2,3,2,3,0,1,2,3,0,0,0>>,
    <<0,2,2,3,0,1,3,3,0,2,3,0,0,2,3,0,0,1,3,0,0,1,3,2,2,2,3,2,1,2>>,
    <<1,3,1,1,1,3,1,1,1,3,1,1,1,3,1,1,1,3,1,1,1,3,1,1,3,1,1,1,3,1>>>>

\* three staff, September 2024, with runs of four working days
Roster_Sep2024_Run4 ==
  <<<<2,2,3,0,0,2,2,3,0,2,3,3,0,0,0,3,0,2,3,2,2,2,3,0,0,0,2,3,2,3>>,
    <<0,3,2,2,2,3,2,2,2,3,0,0,3,2,2,2,3,0,0,0,3,3,0,2,3,2,3,0,0,0>>,
    <<3,0,0,3,3,0,0,0,3,0,2,2,2,3,3,0,2,2,2,3,0,0,2,3,2,3,0,2,2,2>>>>

\* three staff, February 2024, with a Late shift followed by an Early one
Roster_Feb2024_LateEarly ==
  <<<<2,0,2,3,3,2,0,3,0,2,0,3,0,2,3,2,2,2,3,2,2,0,3,0,2,0,3,0,2>>,
    <<2,2,3,0,0,0,3,0,2,0,3,0,2,3,2,0,3,0,2,0,3,2,2,3,0,2,2,3,0>>,
    <<0,3,0,2,2,3,2,2,3,2,2,2,3,0,0,3,0,2,0,3,0,3,0,2,2,3,0,2,2>>>>

AllRosters ==
  {Roster_Feb2023, Roster_Feb2024, Roster_Feb2024_LateEarly,
   Roster_Apr2024, Roster_Dec2024,
   Roster_Jan2025, Roster_Sep2024, Roster_Sep2024_Run4, Roster_Newbies,
   Roster_Nakaban, Roster_ScenarioA}

\* the reference rosters of the request's size, as assignments
RostersFor(r) ==
  IF r.num_staff = 0 THEN {<<>>}
  ELSE {[s \in Staff(r) |-> [d \in Days(r) |-> b[s + 1][d + 1]]] :
          b \in {x \in AllRosters :
                   Len(x) = r.num_staff /\ Len(x[1]) = num_days(r)}}

\* how far apart the two days of a row swap may lie
SwapSpan == 1

\* a and the assignments one edit away from it: one cell changed, two
\* cells of one staff at most SwapSpan days apart exchanged, or the cells
\* of two staff on one day exchanged
Neighbours(a, r) ==
  {a}
  \cup {[a EXCEPT ![s][d] = shift] :
          s \in Staff(r), d \in Days(r), shift \in {EARLY, MIDDLE, LATE, OFF}}
  \cup UNION {{[a EXCEPT ![s][d] = a[s][d + k], ![s][d + k] = a[s][d]] :
                 s \in Staff(r), d \in 0..(num_days(r) - 1 - k)} :
               k \in 1..SwapSpan}
  \cup {[a EXCEPT ![s1][d] = a[s2][d], ![s2][d] = a[s1][d]] :
          s1 \in Staff(r), s2 \in Staff(r), d \in Days(r)}

Candidates(r) == UNION {Neighbours(a, r) : a \in RostersFor(r)}

(***************************************************************************)
(* Result projection: the labels of one staff member, day by day, the Off  *)
(* days numbered by off_counters[s], which starts at 1.                    *)
(***************************************************************************)
RECURSIVE ProjectRow(_, _, _, _)
ProjectRow(row, d, last, off_counter) ==
  IF d > last THEN <<>>
  ELSE IF row[d] = OFF
       THEN <<[label |-> "OFF", n |-> off_counter]>>
              \o ProjectRow(row, d + 1, last, off_counter + 1)
       ELSE <<[label |-> shifts[row[d] + 1], n |-> 0]>>
              \o ProjectRow(row, d + 1, last, off_counter)

\* variant: one counter runs on through the staff, instead of one each
Project_SharedCounter(a, r) ==
  [s \in Staff(r) |->
     ProjectRow(a[s], 0, num_days(r) - 1,
                1 + Cardinality({c \in (0..(s - 1)) \X Days(r) :
                                   a[c[1]][c[2]] = OFF}))]

\* schedule[s] is a list: its element d is the label of day d + 1
Project(a, r) ==
  [s \in Staff(r) |-> ProjectRow(a[s], 0, num_days(r) - 1, 1)]

(***************************************************************************)
(* _analyze_failure: the battery of checks.  A finding keeps its type and  *)
(* priority; check stands for its title, amount for the number its message *)
(* names, listed for the staff the personal-requests warning lists.        *)
(***************************************************************************)
Finding(type, check, priority, amount, listed) ==
  [type |-> type, check |-> check, priority |-> priority,
   amount |-> amount, listed |-> listed]

min_required(r) == r.early_count + r.middle_count + r.late_count_min

\* variant: the days off are taken for the working days
working_days_DaysOff(r) == target_off_days(r)

working_days(r) == num_days(r) - target_off_days(r)

nakaban_only_count(r) ==
  Cardinality({s \in Staff(r) : r.staff_info[s].nakaban_only})

newbie_count(r) == Cardinality({s \in Staff(r) : r.staff_info[s].is_newbie})

\* 1. absolute staff shortage
CheckShortage(r) ==
  IF r.num_staff < min_required(r)
  THEN <<Finding("critical", 1, 1, min_required(r) - r.num_staff, <<>>)>>
  ELSE <<>>

\* 2. too many nakaban-only staff
CheckNakaban(r) ==
  IF nakaban_only_count(r) > r.middle_count
  THEN <<Finding("critical", 2, 1,
                 nakaban_only_count(r) - r.middle_count, <<>>)>>
  ELSE <<>>

TooManyNewbies == 3

\* 3. too many newbies
CheckNewbies(r) ==
  IF newbie_count(r) >= TooManyNewbies
  THEN <<Finding("warning", 3, 2, newbie_count(r), <<>>)>>
  ELSE <<>>

\* variant: paid holidays count as personal requests too
RequestTotal_WithHolidays(r, s) ==
  Len(r.requests_off[s]) + Len(r.holidays[s])
    + Cardinality(r.preferred_shifts[s])

\* len(self.requests_off.get(s, [])) + len(self.preferred_shifts.get(s, {}))
RequestTotal(r, s) ==
  Len(r.requests_off[s]) + Cardinality(r.preferred_shifts[s])

RequestLimit == 2

\* staff_with_excess_requests, for the staff s, s + 1, ..., num_staff - 1
RECURSIVE staff_with_excess_requests(_, _)
staff_with_excess_requests(r, s) ==
  IF s >= r.num_staff THEN <<>>
  ELSE (IF RequestTotal(r, s) > RequestLimit
        THEN <<[name |-> r.staff_info[s].name,
                total |-> RequestTotal(r, s),
                excess |-> RequestTotal(r, s) - RequestLimit]>>
        ELSE <<>>)
       \o staff_with_excess_requests(r, s + 1)

\* 4. too many personal requests
CheckRequests(r) ==
  LET listed == staff_with_excess_requests(r, 0) IN
  IF listed # <<>>
  THEN <<Finding("warning", 4, 2, Len(listed), listed)>>
  ELSE <<>>

RequiredWorkingDays == 10

\* 5. balance margin
CheckBalanceMargin(r) ==
  IF r.num_staff - nakaban_only_count(r) > 0
       /\ working_days(r) < RequiredWorkingDays
  THEN <<Finding("info", 5, 3, working_days(r), <<>>)>>
  ELSE <<>>

\* avg_working_days_per_staff = (num_staff * working_days) / num_staff
\* raises ZeroDivisionError when num_staff is 0
AnalyzeRaises(r) == r.num_staff = 0

UtilizationLimit == 85

\* 6. utilization_rate > 85, with utilization_rate =
\* (total_shifts_needed / total_shifts_available) * 100 when
\* total_shifts_available > 0 and 0 otherwise (no request of the model
\* lies on the limit, where the float product would decide)
CheckUtilization(r) ==
  LET total_shifts_needed == working_days(r) * min_required(r)
      total_shifts_available == r.num_staff * working_days(r)
  IN IF total_shifts_available > 0
          /\ total_shifts_needed * 100
               > UtilizationLimit * total_shifts_available
     THEN <<Finding("warning", 6, 2, total_shifts_needed, <<>>)>>
     ELSE <<>>

\* 7. the general finding when nothing else was found
WithFallback(found) ==
  IF found = <<>> THEN <<Finding("general", 7, 3, 0, <<>>)>> ELSE found

\* variant: x goes in front of the findings of its own priority
RECURSIVE InsertByPriority_BeforeEqual(_, _)
InsertByPriority_BeforeEqual(x, sorted) ==
  IF sorted = <<>> THEN <<x>>
  ELSE IF Head(sorted).priority < x.priority
       THEN <<Head(sorted)>> \o InsertByPriority_BeforeEqual(x, Tail(sorted))
       ELSE <<x>> \o sorted

\* list.sort(key=priority) is stable: x goes behind every finding whose
\* priority is not greater
RECURSIVE InsertByPriority(_, _)
InsertByPriority(x, sorted) ==
  IF sorted = <<>> THEN <<x>>
  ELSE IF Head(sorted).priority <= x.priority
       THEN <<Head(sorted)>> \o InsertByPriority(x, Tail(sorted))
       ELSE <<x>> \o sorted

RECURSIVE SortByPriority(_)
SortByPriority(found) ==
  IF found = <<>> THEN <<>>
  ELSE InsertByPriority(found[Len(found)],
                        SortByPriority(SubSeq(found, 1, Len(found) - 1)))

\* the findings _analyze_failure returns when it does not raise
analyze_failure(r) ==
  SortByPriority(
    WithFallback(CheckShortage(r) \o CheckNakaban(r) \o CheckNewbies(r)
                   \o CheckRequests(r) \o CheckBalanceMargin(r)
                   \o CheckUtilization(r)))

(***************************************************************************)
(* Requests, as generate_schedule parses them: staff_info, requests_off,   *)
(* preferred_shifts and holidays are keyed by the staff index; a staff     *)
(* member without an entry has the empty list or dict.                     *)
(***************************************************************************)
Person(name, is_newbie, nakaban_only) ==
  [name |-> name, is_newbie |-> is_newbie, nakaban_only |-> nakaban_only]

Pref(day, shift_type) == [day |-> day, shift_type |-> shift_type]

\* people, off, prefs and hol are lists in staff order; staffing is
\* <<early_count, middle_count, late_count_min, late_count_max>>
Request(month, year, people, off, prefs, hol, staffing, tolerance) ==
  [month |-> month, year |-> year, num_staff |-> Len(people),
   staff_info |-> [s \in 0..(Len(people) - 1) |-> people[s + 1]],
   requests_off |-> [s \in 0..(Len(people) - 1) |-> off[s + 1]],
   preferred_shifts |-> [s \in 0..(Len(people) - 1) |-> prefs[s + 1]],
   holidays |-> [s \in 0..(Len(people) - 1) |-> hol[s + 1]],
   early_count |-> staffing[1], middle_count |-> staffing[2],
   late_count_min |-> staffing[3], late_count_max |-> staffing[4],
   balance_tolerance |-> tolerance]

Names == <<"A", "B", "C", "D", "E", "F">>

Plain(n) == [i \in 1..n |-> Person(Names[i], FALSE, FALSE)]
NoDays(n) == [i \in 1..n |-> <<>>]
NoPrefs(n) == [i \in 1..n |-> {}]

DefaultTolerance == 2

April == <<4, 2024>>

Calendars ==
  {<<2, 2023>>, <<2, 2024>>, April, <<12, 2024>>, <<1, 2025>>, <<9, 2024>>}

\* Three staff, one Early and at least one Late a day, in every calendar.
\* Each staff works num_days - target days, all of them Early or Late, so
\* the Late shifts outnumber the Early ones by num_days - 3 * target in
\* total and each staff's difference has the parity of its working days:
\* the least tolerance that admits a roster is 2 (28 days), 3 (29 days),
\* 2 (30 days, 8 off), 3 (31 days, 8 off), 2 (31 days, 9 off) and 1 (30
\* days, 9 off), which the reference rosters attain.  With at most one
\* Late a day the Late shifts cannot reach that total at all.
CalendarRequests ==
  {Request(c[1], c[2], Plain(3), NoDays(3), NoPrefs(3), NoDays(3),
           <<1, 0, 1, late_max>>, tolerance) :
     c \in Calendars, late_max \in {0, 2}, tolerance \in {1, 2}}
  \cup {Request(4, 2024, Plain(3), NoDays(3), NoPrefs(3), NoDays(3),
                <<1, 0, late_min, late_max>>, DefaultTolerance) :
          late_min \in {0, 1}, late_max \in {0, 1, 2}}

\* April, three staff, personal requests of the first staff member.  In
\* the April reference roster that member is Off on days 2 and 5 and Late
\* on day 1, so the entries agree with a roster or lie outside 1..30.
PersonalRequests ==
  {Request(4, 2024, Plain(3), <<off, <<>>, <<>>>>, <<prefs, {}, {}>>,
           <<hol, <<>>, <<>>>>, <<1, 0, 1, 2>>, DefaultTolerance) :
     off \in {<<>>, <<2>>, <<0>>, <<2, 31>>},
     prefs \in {{}, {Pref(1, "Late")}, {Pref(31, "Early")}},
     hol \in {<<>>, <<5, 32>>}}
  \cup {Request(4, 2024, Plain(3), NoDays(3), <<{Pref(1, "OFF")}, {}, {}>>,
                NoDays(3), <<1, 0, 1, 2>>, DefaultTolerance)}

\* a Late preference for day 2, which is also requested off or a paid
\* holiday: no assignment meets both while preferences are hard
ConflictRequests ==
  {Request(4, 2024, Plain(3), <<x[1], <<>>, <<>>>>,
           <<{Pref(2, "Late")}, {}, {}>>, <<x[2], <<>>, <<>>>>,
           <<1, 0, 1, 2>>, tolerance) :
     x \in {<<<<2>>, <<>>>>, <<<<>>, <<2>>>>, <<<<2>>, <<31>>>>,
            <<<<2, 5>>, <<2>>>>},
     tolerance \in {1, 2}}

\* too few staff for one day (two staff, five needed), with the personal
\* requests of both varied
ShortageRequests ==
  {Request(4, 2024, Plain(2), <<off, off2>>, <<prefs, {}>>,
           <<hol, <<>>>>, <<2, 1, 2, 3>>, DefaultTolerance) :
     off \in {<<>>, <<1>>, <<1, 2>>, <<1, 2, 3>>, <<1, 1, 40>>},
     off2 \in {<<>>, <<7, 8, 9, 10>>},
     prefs \in {{}, {Pref(4, "Early")},
                {Pref(4, "Early"), Pref(5, "Late")}},
     hol \in {<<>>, <<6>>, <<6, 7, 8>>}}

\* no staff at all
EmptyRequests ==
  {Request(c[1], c[2], <<>>, <<>>, <<>>, <<>>,
           <<early, middle, late_min, 0>>, DefaultTolerance) :
     c \in {April, <<1, 2025>>}, early \in {0, 1}, middle \in {0, 1},
     late_min \in {0, 1}}

\* Scenario A: five staff, one Early, one Middle and one or two Late a day
ScenarioA ==
  Request(4, 2024, Plain(5), NoDays(5), NoPrefs(5), NoDays(5),
          <<1, 1, 1, 2>>, DefaultTolerance)

\* Flags.  Two newbies of three staff (February 2023); three newbies, who
\* cannot share the four days all three must work; one nakaban-only
\* staff of four; three nakaban-only staff for one Middle a day.
FlagRequests ==
  {Request(2, 2023,
           <<Person("A", TRUE, FALSE), Person("B", TRUE, FALSE),
             Person("C", third, FALSE)>>,
           NoDays(3), NoPrefs(3), NoDays(3), <<1, 0, 1, 2>>,
           DefaultTolerance) : third \in {FALSE, TRUE}}
  \cup {Request(4, 2024,
                <<Person("A", FALSE, FALSE), Person("B", FALSE, FALSE),
                  Person("C", FALSE, FALSE), Person("D", FALSE, TRUE)>>,
                NoDays(4), NoPrefs(4), NoDays(4), <<1, 1, 0, 0>>,
                DefaultTolerance)}
  \cup {Request(4, 2024,
                <<Person("A", FALSE, TRUE), Person("B", FALSE, TRUE),
                  Person("C", FALSE, TRUE)>>,
                NoDays(3), NoPrefs(3), NoDays(3), <<0, 1, 0, 0>>,
                DefaultTolerance)}

\* six staff, the first `newbies` of them newbies and the last `nakaban`
\* of them nakaban-only
Crew(newbies, nakaban) ==
  [i \in 1..6 |-> Person(Names[i], i <= newbies, i > 6 - nakaban)]

\* every month of a common year, a leap year, and the century years 1900
\* (no leap year) and 2000 (a leap year)
DiagnosisCalendars == {<<m, y>> : m \in 1..12, y \in {1900, 2000, 2023, 2024}}

\* Six staff whose problem no assignment solves, for one of two reasons:
\* seven staff are needed a day; or two nakaban-only staff, who work at
\* least 20 days each and only as Middle, share the at most 31 Middle
\* shifts of the month.  The calendar, the flags and the personal
\* requests of the first staff member vary.
DiagnosisRequests ==
  {Request(c[1], c[2], Crew(0, 2), NoDays(6), NoPrefs(6), NoDays(6),
           <<1, 1, 1, 0>>, DefaultTolerance) : c \in DiagnosisCalendars}
  \cup {Request(4, 2024, Crew(x[1], x[2]),
                <<x[3], <<>>, <<>>, <<>>, <<>>, <<>>>>, NoPrefs(6), NoDays(6),
                x[4], DefaultTolerance) :
          x \in {y \in {0, 3} \X {0, 2} \X {<<>>, <<1, 2, 3>>}
                         \X {<<1, 1, 1, 0>>, <<3, 1, 3, 0>>} :
                   y[2] = 2 \/ y[4][1] = 3}}

\* Requests that need one relaxation or several.  February 2024 with
\* tolerance 0 and 3 (the least adjusted tolerance is 3); September 2024
\* with tolerance 0 (the least is 1), and with a preference the reference
\* roster meets and the roster with runs of four does not; April with the
\* conflict on day 2 and tolerance 0 (the least is 2); Scenario A with
\* tolerance 0 and 1 (the least is 4).
LadderRequests ==
  {Request(2, 2024, Plain(3), NoDays(3), NoPrefs(3), NoDays(3),
           <<1, 0, 1, 2>>, tolerance) : tolerance \in {0, 3}}
  \cup {Request(9, 2024, Plain(3), NoDays(3), NoPrefs(3), NoDays(3),
                <<1, 0, 1, 2>>, 0),
        Request(9, 2024, Plain(3), NoDays(3),
                <<{Pref(3, "Early")}, {}, {}>>, NoDays(3),
                <<1, 0, 1, 2>>, 1),
        Request(4, 2024, Plain(3), <<<<2>>, <<>>, <<>>>>,
                <<{Pref(2, "Late")}, {}, {}>>, NoDays(3),
                <<1, 0, 1, 2>>, 0)}
  \cup {Request(4, 2024, Plain(5), NoDays(5), NoPrefs(5), NoDays(5),
                <<1, 1, 1, 2>>, tolerance) : tolerance \in {0, 1}}

Requests ==
  CalendarRequests \cup PersonalRequests \cup ConflictRequests
    \cup ShortageRequests \cup EmptyRequests \cup {ScenarioA}
    \cup FlagRequests \cup DiagnosisRequests \cup LadderRequests

(***************************************************************************)
(* solver.Solve.  Pool keeps, for each request, the candidates that        *)
(* satisfy the constraints no profile changes, and Admitted those among    *)
(* them that satisfy the other constraints of each ladder profile too, so  *)
(* that an invocation looks its answer up.                                 *)
(***************************************************************************)
Shape(r) == <<r.num_staff, num_days(r)>>

\* the candidates of every shape (staff, days) that a request has
CandidatesOf ==
  [z \in {Shape(r) : r \in Requests} |->
     Candidates(CHOOSE r \in Requests : Shape(r) = z)]

Pool ==
  [r \in Requests |-> {a \in CandidatesOf[Shape(r)] : FixedConstraints(a, r)}]

Profiles == {relaxation_attempts[k] : k \in DOMAIN relaxation_attempts}

Admitted ==
  [r \in Requests |->
     [p \in Profiles |-> {a \in Pool[r] : ProfileConstraints(a, r, p)}]]

\* the assignments solver.Solve can return with OPTIMAL or FEASIBLE
Solutions(r, p) == Admitted[r][p]

\* the statuses of an invocation that returns no assignment
FailStatuses(r, p) ==
  {"UNKNOWN"} \cup (IF Solutions(r, p) = {} THEN {"INFEASIBLE"} ELSE {})

(***************************************************************************)
(* create_schedule_with_relaxation and the /generate response.             *)
(***************************************************************************)

\* variant: a descriptor only when the balance tolerance was widened
RelaxationInfo_BalanceOnly(r, p) ==
  IF p.relax_balance > 0
  THEN <<[applied |-> TRUE,
          relax_balance |-> p.relax_balance,
          relax_preferences |-> p.relax_preferences,
          relax_consecutive |-> p.relax_consecutive,
          relax_late_early |-> p.relax_late_early,
          adjusted_balance_tolerance |->
            r.balance_tolerance + p.relax_balance]>>
  ELSE <<>>

\* the descriptor built for a successful profile (<<>> is None)
RelaxationInfo(r, p) ==
  IF p.relax_balance > 0 \/ p.relax_preferences \/ p.relax_consecutive
       \/ p.relax_late_early
  THEN <<[applied |-> TRUE,
          relax_balance |-> p.relax_balance,
          relax_preferences |-> p.relax_preferences,
          relax_consecutive |-> p.relax_consecutive,
          relax_late_early |-> p.relax_late_early,
          adjusted_balance_tolerance |->
            r.balance_tolerance + p.relax_balance]>>
  ELSE <<>>

Init ==
  /\ req \in Requests
  /\ pc = "ladder"
  /\ calls = <<>>
  /\ status = "NONE"
  /\ schedule = <<>>
  /\ success = FALSE
  /\ reasons = <<>>
  /\ relaxation_info = <<>>
  /\ response = "none"

\* the profile of the next loop iteration
NextProfile == relaxation_attempts[Len(calls) + 1]

InLoop == pc = "ladder" /\ Len(calls) < Len(relaxation_attempts)

\* one loop iteration whose create_schedule call solves the problem: the
\* schedule is projected, the controller returns it and /generate answers
AttemptSucceeds ==
  /\ InLoop
  /\ ~BuildRaises(req, NextProfile)
  /\ \E a \in Solutions(req, NextProfile) :
       \E st \in {"OPTIMAL", "FEASIBLE"} :
         /\ status' = st
         /\ schedule' = Project(a, req)
  /\ calls' = Append(calls, NextProfile)
  /\ success' = TRUE
  /\ reasons' = <<>>
  /\ relaxation_info' = RelaxationInfo(req, NextProfile)
  /\ response' = "schedule"
  /\ pc' = "done"
  /\ UNCHANGED req

\* one loop iteration whose create_schedule call finds no assignment: it
\* runs _analyze_failure, whose findings the loop drops, and the loop goes on
AttemptFails ==
  /\ InLoop
  /\ ~BuildRaises(req, NextProfile)
  /\ ~AnalyzeRaises(req)
  /\ \E st \in FailStatuses(req, NextProfile) : status' = st
  /\ calls' = Append(calls, NextProfile)
  /\ UNCHANGED <<req, pc, schedule, success, reasons, relaxation_info,
                 response>>

\* one loop iteration whose create_schedule call raises, while it builds
\* the problem or in _analyze_failure: /generate answers the generic error
AttemptRaises ==
  /\ InLoop
  /\ \/ BuildRaises(req, NextProfile) /\ status' = status
     \/ /\ ~BuildRaises(req, NextProfile)
        /\ AnalyzeRaises(req)
        /\ \E st \in FailStatuses(req, NextProfile) : status' = st
  /\ calls' = Append(calls, NextProfile)
  /\ response' = "error"
  /\ pc' = "done"
  /\ UNCHANGED <<req, schedule, success, reasons, relaxation_info>>

\* every profile failed: the controller returns the diagnoser's findings
LadderExhausted ==
  /\ pc = "ladder"
  /\ Len(calls) = Len(relaxation_attempts)
  /\ IF AnalyzeRaises(req)
     THEN response' = "error" /\ UNCHANGED reasons
     ELSE response' = "infeasible" /\ reasons' = analyze_failure(req)
  /\ pc' = "done"
  /\ UNCHANGED <<req, calls, status, schedule, success, relaxation_info>>

Next == AttemptSucceeds \/ AttemptFails \/ AttemptRaises \/ LadderExhausted

Spec == Init /\ [][Next]_vars

(***************************************************************************)
(* Properties.                                                             *)
(***************************************************************************)
Solved == {"OPTIMAL", "FEASIBLE"}

\* the ladder as the specification lists it: (balanceSlack,
\* softenPreferences, extendConsecutiveLimit, allowLateThenEarly)
LadderOfSpec ==
  << <<0, FALSE, FALSE, FALSE>>, <<1, FALSE, FALSE, FALSE>>,
     <<2, FALSE, FALSE, FALSE>>, <<0, TRUE, FALSE, FALSE>>,
     <<1, TRUE, FALSE, FALSE>>, <<2, TRUE, FALSE, FALSE>>,
     <<0, FALSE, TRUE, FALSE>>, <<1, FALSE, TRUE, FALSE>>,
     <<2, TRUE, TRUE, FALSE>>, <<0, FALSE, FALSE, TRUE>>,
     <<1, TRUE, FALSE, TRUE>>, <<2, TRUE, TRUE, FALSE>>,
     <<3, TRUE, TRUE, FALSE>>, <<2, TRUE, TRUE, TRUE>>,
     <<3, TRUE, TRUE, TRUE>>, <<4, TRUE, TRUE, TRUE>> >>

Knobs(p) ==
  <<p.relax_balance, p.relax_preferences, p.relax_consecutive,
    p.relax_late_early>>

\* the number of staff whose label on day d (1-based) is label
LabelCount(d, label) ==
  Cardinality({s \in DOMAIN schedule : schedule[s][d].label = label})

\* the days (1-based) on which staff s has the label
LabelDays(s, label) ==
  {d \in 1..Len(schedule[s]) : schedule[s][d].label = label}

(* C1: the controller calls create_schedule with the 16 profiles in the   *)
(* ladder's literal order, one call per attempt; a further attempt is     *)
(* made only after a call that returned neither OPTIMAL nor FEASIBLE and  *)
(* never after a success; the schedule returned is set by the successful  *)
(* attempt alone; the total-failure outcome is answered exactly when all  *)
(* 16 attempts failed.                                                    *)
C1_StateOfLadder ==
  /\ Len(calls) <= 16
  /\ \A k \in 1..Len(calls) : Knobs(calls[k]) = LadderOfSpec[k]
  /\ success <=> (status \in Solved)
  /\ success => pc = "done" /\ response = "schedule"
  /\ (response = "infeasible")
       <=> (pc = "done" /\ Len(calls) = 16 /\ ~success)
  /\ response = "infeasible" => schedule = <<>> /\ reasons # <<>>

C1_StepOfLadder ==
  /\ calls' # calls =>
       /\ Len(calls') = Len(calls) + 1
       /\ SubSeq(calls', 1, Len(calls)) = calls
       /\ ~success /\ status \notin Solved /\ pc = "ladder"
  /\ schedule' # schedule => (success' /\ calls' # calls)
  /\ success => UNCHANGED vars

C1_LadderOrder == [](C1_StateOfLadder) /\ [][C1_StepOfLadder]_vars

C1_Witness == success /\ Len(calls) = 3 /\ status = "OPTIMAL"

(* C9: a successful run carries a relaxation descriptor exactly when the  *)
(* chosen profile is not the first ladder entry (0,F,F,F); the descriptor  *)
(* repeats the four knobs of the chosen profile and gives the adjusted     *)
(* tolerance as the request's balance tolerance plus the balance slack; a  *)
(* run without success carries no descriptor.                              *)
C9_Descriptor ==
  pc = "done" =>
    /\ ~success => relaxation_info = <<>>
    /\ success =>
         LET chosen == LadderOfSpec[Len(calls)] IN
         /\ (relaxation_info # <<>>)
              <=> (chosen # <<0, FALSE, FALSE, FALSE>>)
         /\ relaxation_info # <<>> =>
              /\ Len(relaxation_info) = 1
              /\ relaxation_info[1].applied
              /\ relaxation_info[1].relax_balance = chosen[1]
              /\ relaxation_info[1].relax_preferences = chosen[2]
              /\ relaxation_info[1].relax_consecutive = chosen[3]
              /\ relaxation_info[1].relax_late_early = chosen[4]
              /\ relaxation_info[1].adjusted_balance_tolerance
                   = req.balance_tolerance + chosen[1]

C9_Witness ==
  /\ success
  /\ Len(calls) = 4
  /\ relaxation_info # <<>>
  /\ relaxation_info[1].relax_balance = 0
  /\ relaxation_info[1].relax_preferences

\* the request of Scenario A, as the specification words it
IsScenarioA(r) ==
  /\ r.num_staff = 5
  /\ \A s \in Staff(r) :
       /\ ~r.staff_info[s].nakaban_only /\ ~r.staff_info[s].is_newbie
       /\ r.requests_off[s] = <<>> /\ r.holidays[s] = <<>>
       /\ r.preferred_shifts[s] = {}
  /\ r.early_count = 1 /\ r.middle_count = 1
  /\ r.late_count_min = 1 /\ r.late_count_max = 2
  /\ r.month = 4 /\ num_days(r) = 30
  /\ r.balance_tolerance = 2

(* C2, as stated: the problem built for Scenario A under the strictest    *)
(* profile is feasible, so the first attempt is never answered INFEASIBLE *)
(* and a successful run chose the first ladder position and reports no    *)
(* relaxation.                                                            *)
C2_AsStated ==
  IsScenarioA(req) =>
    /\ Len(calls) = 1 => status # "INFEASIBLE"
    /\ success => Len(calls) = 1 /\ relaxation_info = <<>>

(* C2, amended: for Scenario A the attempts at ladder positions 1 and 2   *)
(* (tolerance 2 and 3) never succeed; a successful run chose a profile    *)
(* whose adjusted tolerance is at least 4, position 3 (2,F,F,F) at the    *)
(* earliest, and reports that relaxation; in its schedule every staff     *)
(* member has 8 Off days and the Late labels outnumber the Early labels   *)
(* by 20 over the five staff.                                             *)
C2_ScenarioA ==
  IsScenarioA(req) =>
    /\ Len(calls) \in {1, 2} => status \notin Solved
    /\ success =>
         /\ Len(calls) >= 3
         /\ relaxation_info # <<>>
         /\ relaxation_info[1].adjusted_balance_tolerance >= 4
         /\ \A s \in DOMAIN schedule :
              Cardinality(LabelDays(s, "OFF")) = 8
         /\ \E s \in DOMAIN schedule :
              Cardinality(LabelDays(s, "Late"))
                - Cardinality(LabelDays(s, "Early")) >= 4

C2_Witness ==
  /\ IsScenarioA(req)
  /\ success
  /\ Len(calls) = 3
  /\ relaxation_info[1].adjusted_balance_tolerance = 4

C4_OffDays ==
  success =>
    \A s \in DOMAIN schedule :
      Cardinality(LabelDays(s, "OFF"))
        = IF req.month % 2 = 0 THEN 8 ELSE 9

\* an even month of 31 days, solved
C4_Witness ==
  /\ success
  /\ req.month % 2 = 0
  /\ num_days(req) = 31
  /\ req.num_staff > 0

\* staff s works on each of the len days from day d (1-based) on
WorksRun(s, d, len) ==
  \A i \in 0..(len - 1) : schedule[s][d + i].label # "OFF"

(* C5: in every returned schedule every staff member has an Off day in    *)
(* every window of max + 1 consecutive days of the month, max being 3,    *)
(* or 4 when the chosen profile extends the consecutive limit; a run of   *)
(* 4 working days occurs only when the reported relaxation has            *)
(* relax_consecutive set, a run of 5 never.                               *)
C5_Consecutive ==
  success =>
    LET chosen == LadderOfSpec[Len(calls)]
        max == IF chosen[3] THEN 4 ELSE 3
    IN \A s \in DOMAIN schedule :
         /\ \A d \in 1..(Len(schedule[s]) - max) : ~WorksRun(s, d, max + 1)
         /\ (\E d \in 1..(Len(schedule[s]) - 3) : WorksRun(s, d, 4)) =>
              (relaxation_info # <<>>
                 /\ relaxation_info[1].relax_consecutive)
         /\ \A d \in 1..(Len(schedule[s]) - 4) : ~WorksRun(s, d, 5)

\* a returned schedule with a run of four working days
C5_Witness ==
  /\ success
  /\ relaxation_info # <<>>
  /\ relaxation_info[1].relax_consecutive
  /\ \E s \in DOMAIN schedule :
       \E d \in 1..(Len(schedule[s]) - 3) : WorksRun(s, d, 4)

(* C6, as stated: a run that ends without a schedule ends in the          *)
(* structural-infeasibility outcome with a non-empty list of findings,    *)
(* never in the generic error outcome.                                    *)
C6_AsStated ==
  (pc = "done" /\ ~success) =>
    (response = "infeasible" /\ reasons # <<>>)

\* some off, holiday or preferred-shift day of the request lies outside
\* 1..numDays
HasOutOfRangeDay(r) ==
  \E s \in Staff(r) :
    \/ \E i \in 1..Len(r.requests_off[s]) :
         r.requests_off[s][i] < 1 \/ r.requests_off[s][i] > num_days(r)
    \/ \E i \in 1..Len(r.holidays[s]) :
         r.holidays[s][i] < 1 \/ r.holidays[s][i] > num_days(r)
    \/ \E e \in r.preferred_shifts[s] :
         e.day < 1 \/ e.day > num_days(r)

(* C7, as stated: a request with an out-of-range day ends in the generic  *)
(* error outcome and no schedule is returned for it.                      *)
C7_AsStated ==
  (HasOutOfRangeDay(req) /\ pc = "done") =>
    (response = "error" /\ ~success /\ schedule = <<>>)

(* C7, amended: an out-of-range day is skipped without a trace: such a    *)
(* request never ends in the generic error outcome on that account (with  *)
(* staff present it ends with a schedule or with the structural-          *)
(* infeasibility outcome), and a returned schedule honours the in-range   *)
(* off and holiday entries of the same request.                           *)
C7_OutOfRangeSkipped ==
  (HasOutOfRangeDay(req) /\ pc = "done") =>
    /\ response \in {"schedule", "infeasible"}
    /\ response = "schedule" <=> success
    /\ success =>
         \A s \in Staff(req) :
           /\ \A i \in 1..Len(req.requests_off[s]) :
                LET day == req.requests_off[s][i] IN
                (1 <= day /\ day <= num_days(req)) =>
                  schedule[s][day].label = "OFF"
           /\ \A i \in 1..Len(req.holidays[s]) :
                LET day == req.holidays[s][i] IN
                (1 <= day /\ day <= num_days(req)) =>
                  schedule[s][day].label = "OFF"

\* a request with an out-of-range day solved by the first attempt
C7_Witness ==
  /\ HasOutOfRangeDay(req)
  /\ success
  /\ Len(calls) = 1
  /\ schedule # <<>>

\* the findings of check 4 among the reasons returned
RequestWarnings == {i \in DOMAIN reasons : reasons[i].check = 4}

\* the (name, overage) pairs a finding lists
ListedOverages(finding) ==
  {<<finding.listed[j].name, finding.listed[j].excess>> :
     j \in DOMAIN finding.listed}

(* C8, as stated: the diagnoser emits the excess-requests warning         *)
(* (priority 2) exactly when some staff member's requested days off plus  *)
(* paid holidays plus preferred-shift days exceed 2, and lists exactly    *)
(* those staff by name with that total minus 2.                           *)
C8_AsStated ==
  response = "infeasible" =>
    LET total == [s \in Staff(req) |->
                    Len(req.requests_off[s]) + Len(req.holidays[s])
                      + Cardinality(req.preferred_shifts[s])]
        over == {s \in Staff(req) : total[s] > 2}
    IN /\ (RequestWarnings # {}) <=> (over # {})
       /\ \A i \in RequestWarnings :
            /\ reasons[i].type = "warning" /\ reasons[i].priority = 2
            /\ Len(reasons[i].listed) = Cardinality(over)
            /\ ListedOverages(reasons[i])
                 = {<<req.staff_info[s].name, total[s] - 2>> : s \in over}

(* C8, amended: the diagnoser emits the excess-requests warning           *)
(* (priority 2) exactly when some staff member's requested days off plus  *)
(* preferred-shift days exceed 2; paid holidays are not counted.  It      *)
(* lists exactly those staff, once each, by name with that total minus 2. *)
C8_RequestsWarning ==
  response = "infeasible" =>
    LET total == [s \in Staff(req) |->
                    Len(req.requests_off[s])
                      + Cardinality(req.preferred_shifts[s])]
        over == {s \in Staff(req) : total[s] > 2}
    IN /\ (RequestWarnings # {}) <=> (over # {})
       /\ Cardinality(RequestWarnings) <= 1
       /\ \A i \in RequestWarnings :
            /\ reasons[i].type = "warning" /\ reasons[i].priority = 2
            /\ Len(reasons[i].listed) = Cardinality(over)
            /\ ListedOverages(reasons[i])
                 = {<<req.staff_info[s].name, total[s] - 2>> : s \in over}

\* a warning that lists both staff, one of them with paid holidays
C8_Witness ==
  /\ response = "infeasible"
  /\ \E i \in RequestWarnings : Len(reasons[i].listed) = 2
  /\ \E s \in Staff(req) : req.holidays[s] # <<>>

\* the (staff, day) pairs with an in-range day that is both an off entry
\* (requested day off or paid holiday) and a preferred working shift
ConflictCells(r) ==
  {c \in Staff(r) \X (1..num_days(r)) :
     /\ \/ \E i \in 1..Len(r.requests_off[c[1]]) :
             r.requests_off[c[1]][i] = c[2]
        \/ \E i \in 1..Len(r.holidays[c[1]]) : r.holidays[c[1]][i] = c[2]
     /\ \E e \in r.preferred_shifts[c[1]] :
          e.day = c[2] /\ e.shift_type \in {"Early", "Middle", "Late"}}

(* C10: when some staff member has an off entry and a preferred working   *)
(* shift for the same in-range day, no attempt whose profile keeps        *)
(* preferences hard (ladder positions 1, 2, 3, 7, 8, 10) succeeds; the    *)
(* run does not end before position 4 (0,T,F,F) has been attempted; a     *)
(* chosen profile softens preferences; and the returned schedule has that *)
(* staff member Off on that day.                                          *)
C10_Conflict ==
  ConflictCells(req) # {} =>
    /\ (Len(calls) \in {1, 2, 3, 7, 8, 10}) => status \notin Solved
    /\ (Len(calls) >= 1 /\ ~LadderOfSpec[Len(calls)][2]) =>
         status \notin Solved
    /\ pc = "done" =>
         (Len(calls) >= 4 /\ Knobs(calls[4]) = <<0, TRUE, FALSE, FALSE>>)
    /\ success =>
         /\ LadderOfSpec[Len(calls)][2]
         /\ relaxation_info # <<>> /\ relaxation_info[1].relax_preferences
         /\ \A c \in ConflictCells(req) :
              schedule[c[1]][c[2]].label = "OFF"

\* a conflicting request solved at position 4
C10_Witness ==
  /\ ConflictCells(req) # {}
  /\ success
  /\ Len(calls) = 4
  /\ \E c \in ConflictCells(req) : schedule[c[1]][c[2]].label = "OFF"

(* C11: the list the diagnoser returns is sorted ascending by priority:   *)
(* critical findings (priority 1) come before warnings (priority 2),       *)
(* which come before the priority-3 findings (info, general); findings of  *)
(* equal priority keep the order of the checks that made them.             *)
C11_SortedFindings ==
  response = "infeasible" =>
    /\ \A i \in DOMAIN reasons :
         /\ reasons[i].type = "critical" <=> reasons[i].priority = 1
         /\ reasons[i].type = "warning" <=> reasons[i].priority = 2
         /\ reasons[i].type \in {"info", "general"}
              <=> reasons[i].priority = 3
    /\ \A i, j \in DOMAIN reasons :
         i < j =>
           \/ reasons[i].priority < reasons[j].priority
           \/ /\ reasons[i].priority = reasons[j].priority
              /\ reasons[i].check < reasons[j].check

\* two critical findings and three warnings, returned together
C11_Witness ==
  /\ response = "infeasible"
  /\ Len(reasons) = 5
  /\ reasons[1].check = 1 /\ reasons[2].check = 2
  /\ reasons[3].check = 3 /\ reasons[5].check = 6

(* C12: in every returned schedule, whichever attempt produced it, each   *)
(* staff member's Off labels carry, in day order, the numbers 1, 2, ...,   *)
(* k without gap or repeat, k being that member's number of Off days: the  *)
(* number on an Off day is the count of the member's own Off days up to    *)
(* and including it, whatever the other members' rows are; the working     *)
(* labels carry no number.                                                 *)
C12_OffNumbering ==
  success =>
    \A s \in DOMAIN schedule : \A d \in 1..Len(schedule[s]) :
      IF schedule[s][d].label = "OFF"
      THEN schedule[s][d].n
             = Cardinality({e \in LabelDays(s, "OFF") : e <= d})
      ELSE /\ schedule[s][d].label \in {"Early", "Middle", "Late"}
           /\ schedule[s][d].n = 0

\* a schedule of a later attempt in which one member's numbering has
\* reached its last Off day and another member's starts at 1 after the
\* first member's first Off day
C12_Witness ==
  /\ success
  /\ Len(calls) >= 2
  /\ \E s1, s2 \in DOMAIN schedule :
       /\ s1 # s2
       /\ \E d \in LabelDays(s1, "OFF") :
            schedule[s1][d].n = Cardinality(LabelDays(s1, "OFF"))
              /\ schedule[s1][d].n >= 8
       /\ \E d1 \in LabelDays(s1, "OFF"), d2 \in LabelDays(s2, "OFF") :
            d1 < d2 /\ schedule[s2][d2].n = 1

\* profile q relaxes every constraint at least as far as profile p does
AtLeastAsLoose(q, p) ==
  /\ q.relax_balance >= p.relax_balance
  /\ p.relax_preferences => q.relax_preferences
  /\ p.relax_consecutive => q.relax_consecutive
  /\ p.relax_late_early => q.relax_late_early

\* the ladder positions at which the solver can return, for some request,
\* an assignment that the constraints of no earlier position admit
FirstAdmittedAt ==
  {k \in 1..Len(relaxation_attempts) :
     \E r \in Requests : \E a \in Solutions(r, relaxation_attempts[k]) :
       \A j \in 1..(k - 1) : a \notin Solutions(r, relaxation_attempts[j])}

\* invocation i of the run was answered with a solution: the last one of a
\* successful run and no other
SolvedAt(i) == success /\ i = Len(calls)

\* the run gave the same answer to invocations with the same profile
SameAnswerEveryTime ==
  \A i, j \in 1..Len(calls) :
    calls[i] = calls[j] => (SolvedAt(i) <=> SolvedAt(j))

(* C13: the twelfth invocation repeats the ninth, (2,T,T,F), so in a run  *)
(* that answers equal invocations equally the twelfth attempt fails when  *)
(* it is made and is never the chosen one.  It is the only ladder entry   *)
(* that an earlier entry matches or exceeds in every relaxation; at every *)
(* other position the solver can return an assignment that no earlier     *)
(* position admits.  An attempt is only made after a failed one.          *)
C13_StateOfTwelfth ==
  /\ Len(calls) >= 12 =>
       calls[12] = calls[9] /\ Knobs(calls[12]) = <<2, TRUE, TRUE, FALSE>>
  /\ (SameAnswerEveryTime /\ Len(calls) = 12) =>
       (~success /\ status \notin Solved)
  /\ \A k \in 2..Len(relaxation_attempts) :
       (\E j \in 1..(k - 1) :
          AtLeastAsLoose(relaxation_attempts[j], relaxation_attempts[k]))
         <=> k = 12
  /\ FirstAdmittedAt = (1..16) \ {12}

C13_TwelfthNeverChosen ==
  [](C13_StateOfTwelfth)
    /\ [][Len(calls') > Len(calls) => (~success /\ status \notin Solved)]_vars

\* a run that answers equally, in which the twelfth attempt was made and
\* failed and the thirteenth is the chosen one
C13_Witness ==
  /\ SameAnswerEveryTime
  /\ success
  /\ Len(calls) = 13
  /\ status = "OPTIMAL"

(* C14: for every calendar the month has at least 28 days and the        *)
(* working days, the days of the month less 8 (even month) or 9 (odd      *)
(* month), are at least 20; so the balance-margin check never triggers:   *)
(* the diagnoser returns no finding of type info, and a priority-3        *)
(* finding it returns is the general fallback.                            *)
C14_NoBalanceMarginFinding ==
  /\ num_days(req) \in 28..31
  /\ num_days(req) - (IF req.month % 2 = 0 THEN 8 ELSE 9) >= 20
  /\ response = "infeasible" =>
       \A i \in DOMAIN reasons :
         /\ reasons[i].type # "info" /\ reasons[i].check # 5
         /\ reasons[i].priority = 3 =>
              (reasons[i].type = "general" /\ reasons[i].check = 7
                 /\ Len(reasons) = 1)

\* the diagnoser has run for the February of a common century year, the
\* month with the fewest working days, with staff that are not
\* nakaban-only
C14_Witness ==
  /\ response = "infeasible"
  /\ req.month = 2 /\ req.year = 1900
  /\ num_days(req) - 8 = 20
  /\ \E s \in Staff(req) : ~req.staff_info[s].nakaban_only
  /\ reasons # <<>>

=============================================================================
